---------------------------- MODULE Spec2Model ----------------------------
(***************************************************************************)
(* Model of the cashflow service's recurrence / allocation engine          *)
(* (api/routers/bills.py, api/routers/breakdown.py).                       *)
(*                                                                         *)
(* Conventions                                                             *)
(*  - A date is its proleptic Gregorian ordinal (Python date.toordinal()).  *)
(*  - Money (Python float) is a fixed-point integer counting thousandths   *)
(*    of the currency unit ("mills"): 1.006 is 1006.  The inputs are       *)
(*    chosen so that no value ever lies exactly half-way between two       *)
(*    cents, so round(x, 2) does not depend on binary representation.      *)
(*  - A ledger timestamp is the day it falls on.                           *)
(***************************************************************************)
EXTENDS Integers, Sequences, FiniteSets, TLC

VARIABLES
    today,                \* date.today()
    bills,                \* rows of table bills, in the order SELECT returns them
    ledger,               \* rows of table bill_ledger, in insertion order
    budget_rows,          \* result rows of the eligible-budgets query (ORDER BY name)
    ef_figures,           \* outflow_3m, liquid, monthly_income read by the EF stage
    pc,                   \* position of the plan_breakdown handler
    body,                 \* the BreakdownBody of the request being handled
    total,                \* locals of plan_breakdown ...
    reserve,
    remaining,
    scored,
    takes_bills,
    allocations_bills,
    budget_needs,
    takes_budgets,
    allocations_budgets,
    ef_want,
    alloc_ef,
    response,             \* what the handler returned
    last_response,        \* what the client got from the same request before
    call,                 \* the bills.py function or GET handler invoked last
    ret,                  \* what that invocation returned
    in_flight             \* locals of the mark_paid requests being handled, by client

vars == << today, bills, ledger, budget_rows, ef_figures, pc, body, total,
           reserve, remaining, scored, takes_bills, allocations_bills,
           budget_needs, takes_budgets, allocations_budgets, ef_want,
           alloc_ef, response, last_response, call, ret, in_flight >>

db_vars == << today, bills, ledger, budget_rows, ef_figures >>

-----------------------------------------------------------------------------
(* Generic helpers                                                         *)

None == -1

Min(a, b) == IF a <= b THEN a ELSE b
Max(a, b) == IF a >= b THEN a ELSE b

RECURSIVE SumSeq(_)
SumSeq(s) == IF s = << >> THEN 0 ELSE Head(s) + SumSeq(Tail(s))

RECURSIVE GCD(_, _)
GCD(a, b) == IF b = 0 THEN a ELSE GCD(b, a % b)

Range(s) == { s[i] : i \in 1..Len(s) }

\* Python sum(x["amount"] for x in allocations)
SumAmounts(allocs) == SumSeq([i \in 1..Len(allocs) |-> allocs[i].amount])

-----------------------------------------------------------------------------
(* Money                                                                   *)

MillsPerCent == 10
MicroPerMill == 1000

\* round(x, 2): nearest cent, exact ties to the even cent
Round2(x) ==
    LET q == x \div MillsPerCent
        r == x % MillsPerCent
    IN  IF 2 * r < MillsPerCent THEN q * MillsPerCent
        ELSE IF 2 * r > MillsPerCent THEN (q + 1) * MillsPerCent
        ELSE IF q % 2 = 0 THEN q * MillsPerCent
        ELSE (q + 1) * MillsPerCent

-----------------------------------------------------------------------------
(* datetime.date                                                           *)

IsLeap(y) == (y % 4 = 0) /\ ((y % 100 # 0) \/ (y % 400 = 0))

\* calendar.monthrange(y, m)[1]
_last_dom(y, m) ==
    IF m = 2 THEN (IF IsLeap(y) THEN 29 ELSE 28)
    ELSE IF m \in {4, 6, 9, 11} THEN 30
    ELSE 31

DaysBeforeYear(y) ==
    LET p == y - 1 IN p * 365 + (p \div 4) - (p \div 100) + (p \div 400)

DaysBeforeMonth(y, m) ==
    << 0, 31, 59, 90, 120, 151, 181, 212, 243, 273, 304, 334 >>[m]
      + (IF m > 2 /\ IsLeap(y) THEN 1 ELSE 0)

\* date(y, m, d)
MkDate(y, m, d) == DaysBeforeYear(y) + DaysBeforeMonth(y, m) + d

RECURSIVE YearFrom(_, _)
YearFrom(y, n) == IF n <= DaysBeforeYear(y + 1) THEN y ELSE YearFrom(y + 1, n)

\* d.year, d.month, d.day
YearOf(n) == YearFrom(n \div 366 + 1, n)

RECURSIVE MonthFrom(_, _, _)
MonthFrom(y, m, n) ==
    IF n <= DaysBeforeYear(y) + DaysBeforeMonth(y, m) + _last_dom(y, m)
    THEN m ELSE MonthFrom(y, m + 1, n)

MonthOf(n) == MonthFrom(YearOf(n), 1, n)

DayOf(n) ==
    LET y == YearOf(n) IN n - DaysBeforeYear(y) - DaysBeforeMonth(y, MonthOf(n))

\* d.weekday(): 0 = Monday .. 6 = Sunday
Weekday(n) == (n + 6) % 7

-----------------------------------------------------------------------------
(* bills.py helpers                                                        *)

_prev_month(y, m) == IF m = 1 THEN << y - 1, 12 >> ELSE << y, m - 1 >>

\* _previous_due_date whose monthly branch stays in the month of due
PreviousDueSameMonth(bill, due) ==
    IF bill.frequency = "weekly" THEN due - 7
    ELSE IF bill.frequency = "monthly" THEN
        LET day == bill.day_of_month IN
        IF day = None \/ day = 0 THEN MkDate(YearOf(due), MonthOf(due), 1)
        ELSE
            LET pm       == << YearOf(due), MonthOf(due) >>
                dom      == Min(day, _last_dom(pm[1], pm[2]))
                prev_due == MkDate(pm[1], pm[2], dom)
            IN  IF bill.start_date # None /\ bill.start_date > prev_due
                THEN bill.start_date
                ELSE prev_due
    ELSE
        LET anchor   == IF bill.start_date # None THEN bill.start_date
                        ELSE MkDate(YearOf(due), 1, 1)
            py       == YearOf(due) - 1
            dom      == Min(DayOf(anchor), _last_dom(py, MonthOf(anchor)))
            prev_due == MkDate(py, MonthOf(anchor), dom)
        IN  IF bill.start_date # None /\ bill.start_date > prev_due
            THEN bill.start_date
            ELSE prev_due

_previous_due_date(bill, due) ==
    IF bill.frequency = "weekly" THEN due - 7
    ELSE IF bill.frequency = "monthly" THEN
        LET day == bill.day_of_month IN
        IF day = None \/ day = 0 THEN MkDate(YearOf(due), MonthOf(due), 1)
        ELSE
            LET pm       == _prev_month(YearOf(due), MonthOf(due))
                dom      == Min(day, _last_dom(pm[1], pm[2]))
                prev_due == MkDate(pm[1], pm[2], dom)
            IN  IF bill.start_date # None /\ bill.start_date > prev_due
                THEN bill.start_date
                ELSE prev_due
    ELSE
        LET anchor   == IF bill.start_date # None THEN bill.start_date
                        ELSE MkDate(YearOf(due), 1, 1)
            py       == YearOf(due) - 1
            dom      == Min(DayOf(anchor), _last_dom(py, MonthOf(anchor)))
            prev_due == MkDate(py, MonthOf(anchor), dom)
        IN  IF bill.start_date # None /\ bill.start_date > prev_due
            THEN bill.start_date
            ELSE prev_due

\* the end_date / start_date clamps shared by the monthly and yearly branches
ClampToBounds(bill, d) ==
    IF bill.end_date # None /\ d > bill.end_date THEN bill.end_date
    ELSE IF bill.start_date # None /\ d < bill.start_date THEN bill.start_date
    ELSE d

\* _next_due_date with the weekly offset taken backwards
NextDueWeekdayBackwards(bill, ref) ==
    IF bill.frequency = "weekly" THEN
        LET wd == bill.weekday IN
        IF wd = None THEN ref
        ELSE ref + ((Weekday(ref) - wd) % 7)
    ELSE IF bill.frequency = "monthly" THEN
        LET dom == IF bill.day_of_month = None \/ bill.day_of_month = 0
                   THEN 1 ELSE bill.day_of_month
            y   == YearOf(ref)
            m   == MonthOf(ref)
            d   == MkDate(y, m, Min(dom, _last_dom(y, m)))
            ny  == IF m = 12 THEN y + 1 ELSE y
            nm  == IF m = 12 THEN 1 ELSE m + 1
            d2  == IF d < ref THEN MkDate(ny, nm, Min(dom, _last_dom(ny, nm)))
                   ELSE d
        IN  ClampToBounds(bill, d2)
    ELSE
        LET anchor == IF bill.start_date # None THEN bill.start_date
                      ELSE MkDate(YearOf(ref), 1, 1)
            am     == MonthOf(anchor)
            ad     == DayOf(anchor)
            y      == YearOf(ref)
            d      == MkDate(y, am, Min(ad, _last_dom(y, am)))
            d2     == IF d < ref
                      THEN MkDate(y + 1, am, Min(ad, _last_dom(y + 1, am)))
                      ELSE d
        IN  ClampToBounds(bill, d2)

\* _next_due_date whose monthly branch never moves to the next month
NextDueMonthlyNoAdvance(bill, ref) ==
    IF bill.frequency = "weekly" THEN
        LET wd == bill.weekday IN
        IF wd = None THEN ref
        ELSE ref + ((wd - Weekday(ref)) % 7)
    ELSE IF bill.frequency = "monthly" THEN
        LET dom == IF bill.day_of_month = None \/ bill.day_of_month = 0
                   THEN 1 ELSE bill.day_of_month
            y   == YearOf(ref)
            m   == MonthOf(ref)
            d   == MkDate(y, m, Min(dom, _last_dom(y, m)))
            ny  == IF m = 12 THEN y + 1 ELSE y
            nm  == IF m = 12 THEN 1 ELSE m + 1
            d2  == d
        IN  ClampToBounds(bill, d2)
    ELSE
        LET anchor == IF bill.start_date # None THEN bill.start_date
                      ELSE MkDate(YearOf(ref), 1, 1)
            am     == MonthOf(anchor)
            ad     == DayOf(anchor)
            y      == YearOf(ref)
            d      == MkDate(y, am, Min(ad, _last_dom(y, am)))
            d2     == IF d < ref
                      THEN MkDate(y + 1, am, Min(ad, _last_dom(y + 1, am)))
                      ELSE d
        IN  ClampToBounds(bill, d2)

\* _next_due_date whose yearly branch does not clamp the day in the next year
NextDueYearlyNextYearUnclamped(bill, ref) ==
    IF bill.frequency = "weekly" THEN
        LET wd == bill.weekday IN
        IF wd = None THEN ref
        ELSE ref + ((wd - Weekday(ref)) % 7)
    ELSE IF bill.frequency = "monthly" THEN
        LET dom == IF bill.day_of_month = None \/ bill.day_of_month = 0
                   THEN 1 ELSE bill.day_of_month
            y   == YearOf(ref)
            m   == MonthOf(ref)
            d   == MkDate(y, m, Min(dom, _last_dom(y, m)))
            ny  == IF m = 12 THEN y + 1 ELSE y
            nm  == IF m = 12 THEN 1 ELSE m + 1
            d2  == IF d < ref THEN MkDate(ny, nm, Min(dom, _last_dom(ny, nm)))
                   ELSE d
        IN  ClampToBounds(bill, d2)
    ELSE
        LET anchor == IF bill.start_date # None THEN bill.start_date
                      ELSE MkDate(YearOf(ref), 1, 1)
            am     == MonthOf(anchor)
            ad     == DayOf(anchor)
            y      == YearOf(ref)
            d      == MkDate(y, am, Min(ad, _last_dom(y, am)))
            d2     == IF d < ref
                      THEN MkDate(y + 1, am, ad)
                      ELSE d
        IN  ClampToBounds(bill, d2)

_next_due_date(bill, ref) ==
    IF bill.frequency = "weekly" THEN
        LET wd == bill.weekday IN
        IF wd = None THEN ref
        ELSE ref + ((wd - Weekday(ref)) % 7)
    ELSE IF bill.frequency = "monthly" THEN
        LET dom == IF bill.day_of_month = None \/ bill.day_of_month = 0
                   THEN 1 ELSE bill.day_of_month
            y   == YearOf(ref)
            m   == MonthOf(ref)
            d   == MkDate(y, m, Min(dom, _last_dom(y, m)))
            ny  == IF m = 12 THEN y + 1 ELSE y
            nm  == IF m = 12 THEN 1 ELSE m + 1
            d2  == IF d < ref THEN MkDate(ny, nm, Min(dom, _last_dom(ny, nm)))
                   ELSE d
        IN  ClampToBounds(bill, d2)
    ELSE
        LET anchor == IF bill.start_date # None THEN bill.start_date
                      ELSE MkDate(YearOf(ref), 1, 1)
            am     == MonthOf(anchor)
            ad     == DayOf(anchor)
            y      == YearOf(ref)
            d      == MkDate(y, am, Min(ad, _last_dom(y, am)))
            d2     == IF d < ref
                      THEN MkDate(y + 1, am, Min(ad, _last_dom(y + 1, am)))
                      ELSE d
        IN  ClampToBounds(bill, d2)

RECURSIVE MonthlyFrom(_, _, _, _, _)
\* the while loop of _monthly_due_dates, entered with (y, m)
MonthlyFrom(y, m, day, start, end) ==
    IF MkDate(y, m, 1) <= end THEN
        LET d == MkDate(y, m, Min(day, _last_dom(y, m)))
        IN  (IF d >= start /\ d <= end THEN << d >> ELSE << >>)
              \o (IF m = 12 THEN MonthlyFrom(y + 1, 1, day, start, end)
                  ELSE MonthlyFrom(y, m + 1, day, start, end))
    ELSE << >>

\* list(_monthly_due_dates(day, start, end))
_monthly_due_dates(day, start, end) ==
    MonthlyFrom(YearOf(start), MonthOf(start), day, start, end)

RECURSIVE WeeklyFrom(_, _)
\* the while loop of _weekly_due_dates, entered with d
WeeklyFrom(d, end) == IF d <= end THEN << d >> \o WeeklyFrom(d + 7, end) ELSE << >>

\* _weekly_due_dates that starts on start itself, whatever its weekday
WeeklyDueDatesUnaligned(weekday, start, end) == WeeklyFrom(start, end)

\* list(_weekly_due_dates(weekday, start, end))
_weekly_due_dates(weekday, start, end) ==
    WeeklyFrom(start + ((weekday - Weekday(start)) % 7), end)

RECURSIVE YearlyFrom(_, _, _, _)
\* the while loop of _yearly_due_dates, entered with y; date(y, month, day)
\* raises ValueError exactly when day exceeds the month's length
YearlyFrom(y, anchor, start, end) ==
    LET d == MkDate(y, MonthOf(anchor),
                    Min(DayOf(anchor), _last_dom(y, MonthOf(anchor))))
    IN  IF d > end THEN << >>
        ELSE (IF d >= start THEN << d >> ELSE << >>)
               \o YearlyFrom(y + 1, anchor, start, end)

\* list(_yearly_due_dates(anchor, start, end))
_yearly_due_dates(anchor, start, end) ==
    YearlyFrom(Max(YearOf(start), YearOf(anchor)), anchor, start, end)

\* DueDatesFor that ignores the bill's own start_date / end_date
DueDatesForCallerWindowOnly(b, date_from, date_to) ==
    LET s == date_from
        e == date_to
    IN  IF s > e THEN << >>
        ELSE IF b.frequency = "weekly" THEN
            (IF b.weekday = None THEN << >>
             ELSE _weekly_due_dates(b.weekday, s, e))
        ELSE IF b.frequency = "monthly" THEN
            (IF b.day_of_month = None THEN << >>
             ELSE _monthly_due_dates(b.day_of_month, s, e))
        ELSE
            (IF b.start_date = None THEN << >>
             ELSE _yearly_due_dates(b.start_date, s, e))

\* occurrences, lines 292-308: the due dates enumerated for bill b in the
\* caller's window, << >> when the bill is skipped
DueDatesFor(b, date_from, date_to) ==
    LET s == IF b.start_date # None THEN Max(date_from, b.start_date) ELSE date_from
        e == IF b.end_date # None THEN Min(date_to, b.end_date) ELSE date_to
    IN  IF s > e THEN << >>
        ELSE IF b.frequency = "weekly" THEN
            (IF b.weekday = None THEN << >>
             ELSE _weekly_due_dates(b.weekday, s, e))
        ELSE IF b.frequency = "monthly" THEN
            (IF b.day_of_month = None THEN << >>
             ELSE _monthly_due_dates(b.day_of_month, s, e))
        ELSE
            (IF b.start_date = None THEN << >>
             ELSE _yearly_due_dates(b.start_date, s, e))

\* _period_start_for(bill, due)
_period_start_for(bill, due) == _previous_due_date(bill, due)

\* rows of bill_ledger for bill_id with start 00:00:00 <= occurred_at <= end 23:59:59.999999
LedgerRowsIn(rows, bill_id, start, end) ==
    LET InPeriod(r) == /\ r.bill_id = bill_id
                       /\ r.occurred_at >= start
                       /\ r.occurred_at <= end
    IN  SelectSeq(rows, InPeriod)

PosPart(a) == IF a > 0 THEN a ELSE 0
NegPart(a) == IF a < 0 THEN -a ELSE 0

\* (contrib, paid) within [start..end]
_ledger_sums(rows, bill_id, start, end) ==
    LET sel == LedgerRowsIn(rows, bill_id, start, end)
    IN  << SumSeq([i \in 1..Len(sel) |-> PosPart(sel[i].amount)]),
           SumSeq([i \in 1..Len(sel) |-> NegPart(sel[i].amount)]) >>

\* paid_sum >= amt - 1e-6
IsPaid(paid_sum, amt) == paid_sum * MicroPerMill >= amt * MicroPerMill - 1

-----------------------------------------------------------------------------
(* breakdown.py: plan_breakdown                                            *)

\* BodyValid without ge=0 on amount
BodyValidAnyAmount(b) ==
    /\ b.reserve_cushion >= 0
    /\ b.due_soon_days >= 1
    /\ b.due_soon_days <= 60

\* BreakdownBody: amount ge=0, reserve_cushion ge=0, due_soon_days ge=1 le=60
BodyValid(b) ==
    /\ b.amount >= 0
    /\ b.reserve_cushion >= 0
    /\ b.due_soon_days >= 1
    /\ b.due_soon_days <= 60

\* score = 0.6 * soon_weight + 0.4 * (1.0 - progress), kept as an exact
\* fraction num/den (den > 0):
\*   soon_weight = max(0.0, 1.0 - days_to_due / due_soon_days)
\*   progress    = 0.0 if amt <= 0 else min(1.0, contrib / amt)
BillScore(amt, contrib, days_to_due, due_soon_days) ==
    LET swn == Max(0, due_soon_days - days_to_due)
        rn  == IF amt <= 0 THEN 1 ELSE amt - Min(amt, contrib)
        rd  == IF amt <= 0 THEN 1 ELSE amt
        g   == GCD(rd, rn)
        qn  == rn \div g
        qd  == rd \div g
    IN  [num |-> 3 * swn * qd + 2 * qn * due_soon_days,
         den |-> 5 * due_soon_days * qd]

ScoreGT(a, b) == a.num * b.den > b.num * a.den

NeedGT(a, b) == a > b

\* list.sort(key=..., reverse=True): descending by key, equal keys keep
\* their original relative order.  KeyGT(x, y): key of x > key of y.
StableSortDesc(s, KeyGT(_, _)) ==
    LET n      == Len(s)
        Before(j, i) == \/ KeyGT(s[j], s[i])
                        \/ (~KeyGT(s[i], s[j]) /\ j < i)
        pos(i) == 1 + Cardinality({ j \in 1..n : j # i /\ Before(j, i) })
    IN  [k \in 1..n |-> s[CHOOSE i \in 1..n : pos(i) = k]]

\* ScoreBill with the window's last day left out (due >= window_end skipped)
ScoreBillWindowExclusive(b, tdy, due_soon_days, rows) ==
    LET due          == _next_due_date(b, tdy)
        window_end   == tdy + due_soon_days
        period_start == _previous_due_date(b, due)
        sums         == _ledger_sums(rows, b.id, period_start, due)
        contrib      == sums[1]
        paid_sum     == sums[2]
        amt          == b.amount
        need         == Max(0, amt - contrib)
        days_to_due  == due - tdy
    IN  IF due < tdy \/ due >= window_end THEN << >>
        ELSE IF IsPaid(paid_sum, amt) THEN << >>
        ELSE IF need > 0 THEN
            << [bill_id |-> b.id, name |-> b.name, due |-> due, need |-> need,
                score |-> BillScore(amt, contrib, days_to_due, due_soon_days)] >>
        ELSE << >>

\* lines 47-65: the candidate record of one bill, or << >> when it is skipped
ScoreBill(b, tdy, due_soon_days, rows) ==
    LET due          == _next_due_date(b, tdy)
        window_end   == tdy + due_soon_days
        period_start == _previous_due_date(b, due)
        sums         == _ledger_sums(rows, b.id, period_start, due)
        contrib      == sums[1]
        paid_sum     == sums[2]
        amt          == b.amount
        need         == Max(0, amt - contrib)
        days_to_due  == due - tdy
    IN  IF due < tdy \/ due > window_end THEN << >>
        ELSE IF IsPaid(paid_sum, amt) THEN << >>
        ELSE IF need > 0 THEN
            << [bill_id |-> b.id, name |-> b.name, due |-> due, need |-> need,
                score |-> BillScore(amt, contrib, days_to_due, due_soon_days)] >>
        ELSE << >>

RECURSIVE ScoreBills(_, _, _, _)
ScoreBills(bs, tdy, due_soon_days, rows) ==
    IF bs = << >> THEN << >>
    ELSE ScoreBill(Head(bs), tdy, due_soon_days, rows)
           \o ScoreBills(Tail(bs), tdy, due_soon_days, rows)

\* SortScored without reverse=True: ascending by score
SortScoredAscending(items) ==
    LET GT(x, y) == ScoreGT(y.score, x.score) IN StableSortDesc(items, GT)

\* SortScored as an ascending sort that is then reversed: equal scores end
\* up in reverse input order
SortScoredTiesReversed(items) ==
    LET GT(x, y) == ScoreGT(y.score, x.score)
        asc      == StableSortDesc(items, GT)
    IN  [k \in 1..Len(asc) |-> asc[Len(asc) + 1 - k]]

SortScored(items) ==
    LET GT(x, y) == ScoreGT(x.score, y.score) IN StableSortDesc(items, GT)

\* BillsLoop without "remaining -= take"
RECURSIVE BillsLoopNoDecrement(_, _)
BillsLoopNoDecrement(items, rem) ==
    IF items = << >> \/ rem <= 0
    THEN [allocs |-> << >>, takes |-> << >>, remaining |-> rem]
    ELSE
        LET item == Head(items)
            take == Min(item.need, rem)
        IN  IF take <= 0 THEN BillsLoopNoDecrement(Tail(items), rem)
            ELSE
                LET rest == BillsLoopNoDecrement(Tail(items), rem)
                IN  [allocs |-> << [to |-> item.bill_id, name |-> item.name,
                                    due |-> item.due, amount |-> Round2(take)] >>
                                 \o rest.allocs,
                     takes  |-> << [to |-> item.bill_id, take |-> take] >> \o rest.takes,
                     remaining |-> rest.remaining]

\* lines 67-79
RECURSIVE BillsLoop(_, _)
BillsLoop(items, rem) ==
    IF items = << >> \/ rem <= 0
    THEN [allocs |-> << >>, takes |-> << >>, remaining |-> rem]
    ELSE
        LET item == Head(items)
            take == Min(item.need, rem)
        IN  IF take <= 0 THEN BillsLoop(Tail(items), rem)
            ELSE
                LET rest == BillsLoop(Tail(items), rem - take)
                IN  [allocs |-> << [to |-> item.bill_id, name |-> item.name,
                                    due |-> item.due, amount |-> Round2(take)] >>
                                 \o rest.allocs,
                     takes  |-> << [to |-> item.bill_id, take |-> take] >> \o rest.takes,
                     remaining |-> rest.remaining]

\* lines 111-115
RECURSIVE BudgetNeeds(_)
BudgetNeeds(rows) ==
    IF rows = << >> THEN << >>
    ELSE
        LET r    == Head(rows)
            need == Max(0, r.budgeted - r.actual)
        IN  (IF need > 0
             THEN << [category_id |-> r.id, name |-> r.name, need |-> need] >>
             ELSE << >>) \o BudgetNeeds(Tail(rows))

\* SortBudgetNeeds without reverse=True: smallest need first
SortBudgetNeedsAscending(items) ==
    LET GT(x, y) == NeedGT(y.need, x.need) IN StableSortDesc(items, GT)

SortBudgetNeeds(items) ==
    LET GT(x, y) == NeedGT(x.need, y.need) IN StableSortDesc(items, GT)

\* lines 118-127
RECURSIVE BudgetsLoop(_, _)
BudgetsLoop(items, rem) ==
    IF items = << >> \/ rem <= 0
    THEN [allocs |-> << >>, takes |-> << >>, remaining |-> rem]
    ELSE
        LET item == Head(items)
            take == Min(item.need, rem)
            rest == BudgetsLoop(Tail(items), rem - take)
        IN  [allocs |-> << [to |-> item.category_id, name |-> item.name,
                            amount |-> Round2(take)] >> \o rest.allocs,
             takes  |-> << [to |-> item.category_id, take |-> take] >> \o rest.takes,
             remaining |-> rest.remaining]

\* lines 144-159: need = max(0.0, target - liquid), target = outflow_3m / 3.0 * 3.0
EfNeed(ef) ==
    LET baseline == ef.outflow_3m \div 3
        target   == baseline * 3
    IN  Max(0, target - ef.liquid)

\* line 179: cap = monthly_income * 0.05
EfCap(ef) == (ef.monthly_income * 5) \div 100

\* EfWant with the 5% cap left out
EfWantUncapped(ef) == EfNeed(ef)

\* line 180
EfWant(ef) == Min(EfCap(ef), EfNeed(ef))

\* line 182: alloc_ef = round(min(remaining, ef_want), 2)
EfAlloc(rem, want) == Round2(Min(rem, want))

-----------------------------------------------------------------------------
(* Bounded inputs                                                          *)

MaxBills   == 2      \* rows in table bills
MaxLedger  == 1      \* rows in table bill_ledger
MaxBudgets == 3      \* rows returned by the eligible-budgets query

Today == MkDate(2024, 1, 10)      \* a Wednesday

Bill(id, amount, frequency, weekday, day_of_month, start_date, end_date) ==
    [id |-> id, name |-> id, amount |-> amount, frequency |-> frequency,
     weekday |-> weekday, day_of_month |-> day_of_month,
     start_date |-> start_date, end_date |-> end_date]

\* rent: monthly on the 13th (3 days ahead); gym, spa: weekly on Wednesday
\* (due today, sub-cent amounts); club: yearly on Jan 14 (4 days ahead)
BillPool ==
    << Bill("rent", 300000, "monthly", None, 13, None, None),
       Bill("gym",  1006,   "weekly",  2, None, None, None),
       Bill("spa",  1006,   "weekly",  2, None, None, None),
       Bill("club", 2000,   "yearly",  None, None, MkDate(2023, 1, 14), None) >>

LedgerRow(bill_id, occurred_at, amount) ==
    [bill_id |-> bill_id, occurred_at |-> occurred_at, amount |-> amount]

\* in order of occurred_at
LedgerPool ==
    << LedgerRow("rent", MkDate(2023, 12, 12), -300000),   \* paid, period before
       LedgerRow("rent", MkDate(2023, 12, 20), -300000),   \* paid, this period
       LedgerRow("gym",  MkDate(2024, 1, 5),   500),       \* part contributed
       LedgerRow("spa",  MkDate(2024, 1, 8),   1006) >>    \* fully contributed

BudgetRow(id, budgeted, actual) ==
    [id |-> id, name |-> id, budgeted |-> budgeted, actual |-> actual]

\* in order of name
BudgetPool ==
    << BudgetRow("food", 150000, 0),
       BudgetRow("fun",  2012,   1004),
       BudgetRow("gas",  5000,   7000),
       BudgetRow("home", 200000, 50000) >>

\* need 500 / cap 50;  need 500 / cap 5.006;  need 0
EfChoices ==
    { [outflow_3m |-> 1500000, liquid |-> 1000000, monthly_income |-> 1000000],
      [outflow_3m |-> 1500000, liquid |-> 1000000, monthly_income |-> 100120],
      [outflow_3m |-> 1500000, liquid |-> 2000000, monthly_income |-> 1000000] }

Body(amount, reserve_cushion, due_soon_days) ==
    [amount |-> amount, reserve_cushion |-> reserve_cushion,
     due_soon_days |-> due_soon_days]

Bodies ==
    { Body(-5000, 0, 14), Body(1000000, 200000, 14), Body(3020, 0, 14),
      Body(1000, 0, 3), Body(3020, 200000, 14) }

\* the k-th smallest element of a finite set of integers
KthOf(S, k) == CHOOSE i \in S : Cardinality({ j \in S : j < i }) = k - 1

\* the subsequences of pool with at most max elements
SubSeqs(pool, max) ==
    { [k \in 1..Cardinality(S) |-> pool[KthOf(S, k)]] :
        S \in { T \in SUBSET (1..Len(pool)) : Cardinality(T) <= max } }

\* the bill table with the two equal-score bills in the other row order
BillPoolSwapped ==
    [k \in 1..Len(BillPool) |->
        IF k = 2 THEN BillPool[3] ELSE IF k = 3 THEN BillPool[2] ELSE BillPool[k]]

NoBody     == Body(0, 0, 1)
NoResponse == [status |-> 0]

\* what call holds: the function or handler name and its arguments
Call(op, bill, ref, due, date_from, date_to, due_soon_days, amount) ==
    [op |-> op, bill |-> bill, ref |-> ref, due |-> due, date_from |-> date_from,
     date_to |-> date_to, due_soon_days |-> due_soon_days, amount |-> amount]

NoCall == Call("none", None, None, None, None, None, None, None)

-----------------------------------------------------------------------------
(* Specification                                                           *)

Init ==
    /\ today = Today
    /\ bills \in SubSeqs(BillPool, MaxBills) \cup SubSeqs(BillPoolSwapped, MaxBills)
    /\ ledger \in SubSeqs(LedgerPool, MaxLedger)
    /\ \A i \in 1..Len(ledger) :
          \E j \in 1..Len(bills) : bills[j].id = ledger[i].bill_id
    /\ budget_rows \in SubSeqs(BudgetPool, MaxBudgets)
    /\ ef_figures \in EfChoices
    /\ pc = "idle"
    /\ body = NoBody
    /\ total = 0
    /\ reserve = 0
    /\ remaining = 0
    /\ scored = << >>
    /\ takes_bills = << >>
    /\ allocations_bills = << >>
    /\ budget_needs = << >>
    /\ takes_budgets = << >>
    /\ allocations_budgets = << >>
    /\ ef_want = 0
    /\ alloc_ef = 0
    /\ response = NoResponse
    /\ last_response = NoResponse
    /\ call = NoCall
    /\ ret = None
    /\ in_flight = << >>

\* request validation fails: the handler body never runs
Reject ==
    /\ pc = "idle"
    /\ \E b \in Bodies :
        /\ ~BodyValid(b)
        /\ body' = b
    /\ pc' = "rejected"
    /\ response' = [status |-> 422]
    /\ UNCHANGED << db_vars, call, ret, in_flight, total, reserve, remaining, scored, takes_bills,
                    allocations_bills, budget_needs, takes_budgets,
                    allocations_budgets, ef_want, alloc_ef, last_response >>

\* lines 37-39: allocations_bills = [], allocations_budgets = [], alloc_ef = 0.0
NewAllocations == [bills |-> << >>, budgets |-> << >>, ef |-> 0]

\* lines 27-39: guard and setup
Setup(b) ==
    /\ BodyValid(b)
    /\ body' = b
    /\ total' = b.amount
    /\ reserve' = Min(b.reserve_cushion, b.amount)
    /\ remaining' = Max(0, b.amount - Min(b.reserve_cushion, b.amount))
    /\ allocations_bills' = NewAllocations.bills
    /\ allocations_budgets' = NewAllocations.budgets
    /\ alloc_ef' = NewAllocations.ef
    /\ pc' = "bills"
    /\ UNCHANGED << db_vars, call, ret, in_flight, scored, takes_bills, budget_needs, takes_budgets,
                    ef_want >>

\* a request arrives
Request ==
    /\ pc = "idle"
    /\ \E b \in Bodies : Setup(b)
    /\ UNCHANGED << response, last_response >>

\* the client sends the same request again, against the same data
Replay ==
    /\ pc = "done"
    /\ last_response = NoResponse
    /\ last_response' = response
    /\ response' = NoResponse
    /\ Setup(body)

\* lines 41-79: 1) bills due soon
BillsStage ==
    /\ pc = "bills"
    /\ LET sorted == SortScored(ScoreBills(bills, today, body.due_soon_days, ledger))
           out    == BillsLoop(sorted, remaining)
       IN  /\ scored' = sorted
           /\ allocations_bills' = allocations_bills \o out.allocs
           /\ takes_bills' = out.takes
           /\ remaining' = out.remaining
    /\ pc' = "budgets"
    /\ UNCHANGED << db_vars, call, ret, in_flight, body, total, reserve, budget_needs, takes_budgets,
                    allocations_budgets, ef_want, alloc_ef, response,
                    last_response >>

\* lines 81-127: 2) budgets (fund gaps)
BudgetsStage ==
    /\ pc = "budgets"
    /\ LET sorted == SortBudgetNeeds(BudgetNeeds(budget_rows))
           out    == BudgetsLoop(sorted, remaining)
       IN  /\ budget_needs' = sorted
           /\ allocations_budgets' = allocations_budgets \o out.allocs
           /\ takes_budgets' = out.takes
           /\ remaining' = out.remaining
    /\ pc' = "ef"
    /\ UNCHANGED << db_vars, call, ret, in_flight, body, total, reserve, scored, takes_bills,
                    allocations_bills, ef_want, alloc_ef, response,
                    last_response >>

\* lines 129-183: 3) emergency fund
EFStage ==
    /\ pc = "ef"
    /\ ef_want' = EfWant(ef_figures)
    /\ IF remaining > 0 /\ EfWant(ef_figures) > 0
       THEN /\ alloc_ef' = EfAlloc(remaining, EfWant(ef_figures))
            /\ remaining' = remaining - EfAlloc(remaining, EfWant(ef_figures))
       ELSE UNCHANGED << alloc_ef, remaining >>
    /\ pc' = "respond"
    /\ UNCHANGED << db_vars, call, ret, in_flight, body, total, reserve, scored, takes_bills,
                    allocations_bills, budget_needs, takes_budgets,
                    allocations_budgets, response, last_response >>

\* lines 185-202: the response
Respond ==
    /\ pc = "respond"
    /\ response' =
         [status          |-> 200,
          input_amount    |-> Round2(total),
          reserve_cushion |-> Round2(reserve),
          bills           |-> allocations_bills,
          budgets         |-> allocations_budgets,
          ef              |-> alloc_ef,
          to_bills        |-> Round2(SumAmounts(allocations_bills)),
          to_budgets      |-> Round2(SumAmounts(allocations_budgets)),
          to_ef           |-> alloc_ef,
          unallocated     |-> Round2(remaining)]
    /\ pc' = "done"
    /\ UNCHANGED << db_vars, call, ret, in_flight, body, total, reserve, remaining, scored,
                    takes_bills, allocations_bills, budget_needs,
                    takes_budgets, allocations_budgets, ef_want, alloc_ef,
                    last_response >>

Next == Reject \/ Request \/ Replay \/ BillsStage \/ BudgetsStage \/ EFStage \/ Respond

Spec == Init /\ [][Next]_vars

-----------------------------------------------------------------------------
(* Observations used by the properties                                     *)

Done == pc = "done"

BillById(id)   == bills[CHOOSE j \in 1..Len(bills) : bills[j].id = id]
BudgetById(id) == budget_rows[CHOOSE j \in 1..Len(budget_rows) : budget_rows[j].id = id]

\* a bill's current period and what the ledger holds for it
CurrentDue(b)  == _next_due_date(b, today)
CurrentSums(b) ==
    _ledger_sums(ledger, b.id, _previous_due_date(b, CurrentDue(b)), CurrentDue(b))

BillNeed(b)   == b.amount - CurrentSums(b)[1]      \* amount - contributed
BudgetNeed(r) == r.budgeted - r.actual             \* budgeted - actual

\* the amount a stage took for a target (0 when it has no allocation record)
TakeIn(takes, id) ==
    IF \E k \in 1..Len(takes) : takes[k].to = id
    THEN takes[CHOOSE k \in 1..Len(takes) : takes[k].to = id].take
    ELSE 0

TakesSum(takes) == SumSeq([k \in 1..Len(takes) |-> takes[k].take])

ReportedTotal(r) == SumAmounts(r.bills) + SumAmounts(r.budgets) + r.ef

-----------------------------------------------------------------------------
(* Properties                                                              *)

\* C1: in every plan_breakdown result with non-negative inflow the reported
\* reserve, the reported (rounded) bill and budget allocations, the reported
\* EF allocation and the reported unallocated add up to the inflow, to the
\* cent.  (Stated as claimed; the code does not satisfy it.)
C1_ReportAddsUpToInflow ==
    Done => response.reserve_cushion + SumAmounts(response.bills)
              + SumAmounts(response.budgets) + response.ef
              + response.unallocated = body.amount

\* C2: every reported bill allocation is at most the bill's need (amount -
\* contributed), every reported budget allocation is at most the category's
\* need (budgeted - actual), and the reported EF allocation is at most
\* min(ef_cap, ef_need).  (Stated as claimed; the code does not satisfy it.)
C2_NoAllocationAboveNeed ==
    Done =>
        /\ \A k \in 1..Len(response.bills) :
              response.bills[k].amount <= BillNeed(BillById(response.bills[k].to))
        /\ \A k \in 1..Len(response.budgets) :
              response.budgets[k].amount
                 <= BudgetNeed(BudgetById(response.budgets[k].to))
        /\ response.ef <= Min(EfCap(ef_figures), EfNeed(ef_figures))

\* C3: reserve = min(reserve_cushion, inflow) is set aside before any stage
\* and no stage spends from it: the bill, budget and EF allocations together
\* never exceed inflow - reserve, and unallocated does not include the
\* reserve.  (Stated as claimed; the code does not satisfy it.)
C3_ReserveNeverSpent ==
    Done =>
        /\ response.reserve_cushion = Min(body.reserve_cushion, body.amount)
        /\ ReportedTotal(response) <= body.amount - response.reserve_cushion
        /\ response.unallocated <= body.amount - response.reserve_cushion

\* the bills the claims call selected: unpaid current period, due inside
\* [today, today + due_soon_days], positive need
Considered(b) ==
    LET due  == CurrentDue(b)
        sums == _ledger_sums(ledger, b.id, _previous_due_date(b, due), due)
    IN  /\ due >= today
        /\ due <= today + body.due_soon_days
        /\ sums[2] * MicroPerMill < b.amount * MicroPerMill - 1
        /\ b.amount - sums[1] > 0

SelectedBills == { b \in Range(bills) : Considered(b) }
ShortBudgets  == { r \in Range(budget_rows) : BudgetNeed(r) > 0 }

AllBillsFull   == \A b \in SelectedBills : TakeIn(takes_bills, b.id) = BillNeed(b)
AllBudgetsFull == \A r \in ShortBudgets : TakeIn(takes_budgets, r.id) = BudgetNeed(r)

AfterBills   == pc \in {"budgets", "ef", "respond", "done"}
AfterBudgets == pc \in {"ef", "respond", "done"}
AfterEF      == pc \in {"respond", "done"}

\* C4: the stages run in the order bills, budgets, emergency fund; a stage
\* never changes what an earlier stage allocated; a budget allocation exists
\* only if every selected bill got its full need, and the EF allocation is
\* positive only if every selected bill and every budget shortfall got its
\* full need.
C4_EarlierStagesFull ==
    /\ (AfterBudgets /\ takes_budgets # << >> => AllBillsFull)
    /\ (AfterEF /\ alloc_ef > 0 => AllBillsFull /\ AllBudgetsFull)

C4_NoBacktracking ==
    /\ (pc = "bills" => pc' = "budgets")
    /\ (pc = "budgets" => pc' = "ef")
    /\ (pc = "ef" => pc' = "respond")
    /\ (pc \in {"budgets", "ef", "respond"} =>
           /\ allocations_bills' = allocations_bills
           /\ takes_bills' = takes_bills)
    /\ (pc \in {"ef", "respond"} =>
           /\ allocations_budgets' = allocations_budgets
           /\ takes_budgets' = takes_budgets)
    /\ (pc = "respond" =>
           /\ alloc_ef' = alloc_ef
           /\ response'.bills = allocations_bills
           /\ response'.budgets = allocations_budgets
           /\ response'.ef = alloc_ef)

C4_StagesInOrder == []C4_EarlierStagesFull /\ [][C4_NoBacktracking]_vars

C4_Witness ==
    /\ Done
    /\ SelectedBills # {}
    /\ ShortBudgets # {}
    /\ takes_budgets # << >>
    /\ alloc_ef > 0

\* C5: the bills stage considers a bill if and only if its current period is
\* unpaid (paid sum < amount - 1e-6), its next due date lies in
\* [today, today + due_soon_days] (both ends included) and its need
\* amount - contributed is positive; no other bill gets a bill allocation.
C5_BillsConsidered ==
    Done =>
        LET selected == { b.id : b \in SelectedBills } IN
        /\ { scored[i].bill_id : i \in 1..Len(scored) } = selected
        /\ Len(scored) = Cardinality(selected)
        /\ \A i \in 1..Len(scored) :
              /\ scored[i].need = BillNeed(BillById(scored[i].bill_id))
              /\ scored[i].due = CurrentDue(BillById(scored[i].bill_id))
        /\ \A k \in 1..Len(response.bills) : response.bills[k].to \in selected

C5_Witness ==
    /\ Done
    /\ \E i \in 1..Len(scored) : scored[i].due = today + body.due_soon_days
    /\ \E b \in Range(bills) : CurrentDue(b) > today + body.due_soon_days
    /\ allocations_bills # << >>

\* what the bills stage took for the i-th ranked bill
BillTake(i) == TakeIn(takes_bills, scored[i].bill_id)

RECURSIVE BillTakesBefore(_)
BillTakesBefore(i) == IF i <= 1 THEN 0 ELSE BillTake(i - 1) + BillTakesBefore(i - 1)

\* ranked by descending score; each bill takes min(need, remaining); a bill
\* gets something only if every bill with a strictly higher score is full
BillsFundedInScoreOrder ==
    /\ \A i, j \in 1..Len(scored) :
          i < j => ~ScoreGT(scored[j].score, scored[i].score)
    /\ \A i \in 1..Len(scored) :
          BillTake(i) = Min(scored[i].need,
                            Max(0, total - reserve - BillTakesBefore(i)))
    /\ \A i, j \in 1..Len(scored) :
          (BillTake(i) > 0 /\ ScoreGT(scored[j].score, scored[i].score))
             => BillTake(j) = scored[j].need

\* C6 as claimed: ... and at most one bill in the stage receives less than
\* its need.  (Refuted: every bill ranked after the money runs out receives
\* nothing, which is less than its need.)
C6_AtMostOneBelowNeed ==
    Done =>
        /\ BillsFundedInScoreOrder
        /\ Cardinality({ i \in 1..Len(scored) : BillTake(i) < scored[i].need }) <= 1

\* C6 (amended): selected bills are funded in descending priority_score
\* order, each taking min(need, remaining); a bill receives a positive
\* allocation only if every selected bill with a strictly higher score
\* received its full need; at most one bill receives a positive allocation
\* smaller than its need.
C6_BillsGreedyByScore ==
    Done =>
        /\ BillsFundedInScoreOrder
        /\ Cardinality({ i \in 1..Len(scored) :
                           0 < BillTake(i) /\ BillTake(i) < scored[i].need }) <= 1

C6_Witness ==
    /\ Done
    /\ \E i, j \in 1..Len(scored) :
          /\ ScoreGT(scored[i].score, scored[j].score)
          /\ BillTake(i) = scored[i].need
          /\ 0 < BillTake(j)
          /\ BillTake(j) < scored[j].need

\* what the budgets stage took for the i-th ranked category
BudgetTake(i) == TakeIn(takes_budgets, budget_needs[i].category_id)

RECURSIVE BudgetTakesBefore(_)
BudgetTakesBefore(i) ==
    IF i <= 1 THEN 0 ELSE BudgetTake(i - 1) + BudgetTakesBefore(i - 1)

\* C7: the budgets stage funds the categories with positive need
\* max(0, budgeted - actual) in descending need order (no urgency term),
\* each taking min(need, remaining); a category receives a positive
\* allocation only if every category with a strictly larger need received
\* its full need.
C7_BudgetsGreedyByNeed ==
    Done =>
        /\ { budget_needs[i].category_id : i \in 1..Len(budget_needs) }
             = { r.id : r \in ShortBudgets }
        /\ Len(budget_needs) = Cardinality(ShortBudgets)
        /\ \A i \in 1..Len(budget_needs) :
              budget_needs[i].need = BudgetNeed(BudgetById(budget_needs[i].category_id))
        /\ \A i, j \in 1..Len(budget_needs) :
              i < j => budget_needs[i].need >= budget_needs[j].need
        /\ \A i \in 1..Len(budget_needs) :
              BudgetTake(i) = Min(budget_needs[i].need,
                                  Max(0, total - reserve - TakesSum(takes_bills)
                                           - BudgetTakesBefore(i)))
        /\ \A i, j \in 1..Len(budget_needs) :
              (BudgetTake(i) > 0 /\ budget_needs[j].need > budget_needs[i].need)
                 => BudgetTake(j) = budget_needs[j].need

C7_Witness ==
    /\ Done
    /\ \E r \in Range(budget_rows) : BudgetNeed(r) <= 0
    /\ \E i, j \in 1..Len(budget_needs) :
          /\ budget_needs[i].need > budget_needs[j].need
          /\ 0 < BudgetTake(i)
          /\ BudgetTake(j) < budget_needs[j].need

\* the scenario of C8: inflow 1000, cushion 200, one unpaid bill due in 3
\* days needing 300, one budget shortfall of 150, ef_need 500, ef_cap 50
C8_Scenario ==
    /\ body.amount = 1000000
    /\ body.reserve_cushion = 200000
    /\ Cardinality(SelectedBills) = 1
    /\ \A b \in SelectedBills : CurrentDue(b) = today + 3 /\ BillNeed(b) = 300000
    /\ Cardinality(ShortBudgets) = 1
    /\ \A r \in ShortBudgets : BudgetNeed(r) = 150000
    /\ EfNeed(ef_figures) = 500000
    /\ EfCap(ef_figures) = 50000

\* C8: in that scenario plan_breakdown reports reserve 200, bill allocation
\* 300, budget allocation 150, EF allocation 50 and unallocated 300.
C8_ScenarioResult ==
    (Done /\ C8_Scenario) =>
        /\ response.reserve_cushion = 200000
        /\ Len(response.bills) = 1
        /\ response.bills[1].amount = 300000
        /\ response.bills[1].to \in { b.id : b \in SelectedBills }
        /\ response.to_bills = 300000
        /\ Len(response.budgets) = 1
        /\ response.budgets[1].amount = 150000
        /\ response.budgets[1].to \in { r.id : r \in ShortBudgets }
        /\ response.to_budgets = 150000
        /\ response.ef = 50000
        /\ response.to_ef = 50000
        /\ response.unallocated = 300000

C8_Witness == Done /\ C8_Scenario /\ response.unallocated = 300000

BillIndex(id)   == CHOOSE j \in 1..Len(bills) : bills[j].id = id
BudgetIndex(id) == CHOOSE j \in 1..Len(budget_rows) : budget_rows[j].id = id
BillRank(id)    == CHOOSE i \in 1..Len(scored) : scored[i].bill_id = id
BudgetRank(id)  == CHOOSE i \in 1..Len(budget_needs) : budget_needs[i].category_id = id

SameScore(a, b) == ~ScoreGT(a, b) /\ ~ScoreGT(b, a)

\* C10: allocation is deterministic: the same request against the same
\* data (bill list in the same order, ledger, budget rows, EF figures,
\* today) gets the same response again; bills with equal scores, and budget
\* categories with equal needs, are ranked and funded in their input order.
C10_Deterministic ==
    /\ (Done /\ last_response # NoResponse) => response = last_response
    /\ Done =>
          /\ \A i, j \in 1..Len(scored) :
                (i < j /\ SameScore(scored[i].score, scored[j].score))
                   => BillIndex(scored[i].bill_id) < BillIndex(scored[j].bill_id)
          /\ \A k, l \in 1..Len(takes_bills) :
                k < l => BillRank(takes_bills[k].to) < BillRank(takes_bills[l].to)
    /\ Done =>
          /\ \A i, j \in 1..Len(budget_needs) :
                (i < j /\ budget_needs[i].need = budget_needs[j].need)
                   => BudgetIndex(budget_needs[i].category_id)
                        < BudgetIndex(budget_needs[j].category_id)
          /\ \A k, l \in 1..Len(takes_budgets) :
                k < l => BudgetRank(takes_budgets[k].to) < BudgetRank(takes_budgets[l].to)

C10_Witness ==
    /\ Done
    /\ last_response # NoResponse
    /\ \E i, j \in 1..Len(scored) :
          /\ i < j
          /\ SameScore(scored[i].score, scored[j].score)
          /\ 0 < BillTake(i)
          /\ BillTake(j) < scored[j].need

-----------------------------------------------------------------------------
(* Recurrence calculator and occurrence enumerator, called on their own    *)

RefSpanDays == 800
RefFirst    == MkDate(2023, 1, 1)
\* 2023-01-01 .. 2025-03-11: a leap February between two ordinary ones
RefDates    == RefFirst .. (RefFirst + RefSpanDays)

Schedule(frequency, weekday, day_of_month, start_date, end_date) ==
    Bill("sched", 100000, frequency, weekday, day_of_month, start_date, end_date)

\* day_of_month values: first, mid-month, and each day some month lacks
MonthlyDays == { 1, 15, 28, 29, 30, 31 }

\* every weekday and these days of month without bounds; bounded schedules of
\* each frequency; and the rows patch_bill can leave behind (a weekly bill
\* without weekday, a monthly one without day_of_month, a yearly one without
\* start_date)
SchedulePool ==
    { Schedule("weekly", w, None, None, None) : w \in 0..6 }
    \cup { Schedule("monthly", None, d, None, None) : d \in MonthlyDays }
    \cup { Schedule("weekly", 2, None, MkDate(2024, 1, 8), None),
           Schedule("weekly", 4, None, MkDate(2023, 6, 1), MkDate(2024, 6, 30)),
           Schedule("weekly", None, None, None, None),
           Schedule("monthly", None, 31, MkDate(2023, 3, 15), MkDate(2024, 6, 10)),
           Schedule("monthly", None, 15, MkDate(2024, 1, 20), None),
           Schedule("monthly", None, None, None, None),
           Schedule("yearly", None, None, MkDate(2024, 2, 29), None),
           Schedule("yearly", None, None, MkDate(2023, 1, 14), None),
           Schedule("yearly", None, None, MkDate(2023, 6, 30), MkDate(2024, 6, 29)),
           Schedule("yearly", None, None, None, None) }

\* caller windows << date_from, date_to >>
Windows ==
    { << MkDate(2024, 1, 1),  MkDate(2024, 1, 31) >>,
      << MkDate(2023, 2, 1),  MkDate(2023, 2, 28) >>,
      << MkDate(2023, 1, 15), MkDate(2023, 3, 15) >>,
      << MkDate(2023, 1, 1),  MkDate(2024, 7, 31) >>,
      << MkDate(2024, 1, 11), MkDate(2024, 1, 13) >>,
      << MkDate(2024, 7, 1),  MkDate(2024, 7, 1) >>,
      << MkDate(2024, 2, 1),  MkDate(2024, 1, 1) >> }

\* no plan_breakdown request is being handled
HandlerIdle ==
    /\ pc = "idle"
    /\ body = NoBody
    /\ total = 0
    /\ reserve = 0
    /\ remaining = 0
    /\ scored = << >>
    /\ takes_bills = << >>
    /\ allocations_bills = << >>
    /\ budget_needs = << >>
    /\ takes_budgets = << >>
    /\ allocations_budgets = << >>
    /\ ef_want = 0
    /\ alloc_ef = 0
    /\ response = NoResponse
    /\ last_response = NoResponse

handler_vars == << pc, body, total, reserve, remaining, scored, takes_bills,
                   allocations_bills, budget_needs, takes_budgets,
                   allocations_budgets, ef_want, alloc_ef, response,
                   last_response >>

CalcInit ==
    /\ today = Today
    /\ bills = << >>
    /\ ledger = << >>
    /\ budget_rows = << >>
    /\ ef_figures \in { e \in EfChoices : EfNeed(e) = 0 }
    /\ HandlerIdle
    /\ call = NoCall
    /\ ret = None
    /\ in_flight = << >>

\* due = _next_due_date(bill, ref)
NextDue ==
    /\ call.op = "none"
    /\ \E b \in SchedulePool, ref \in RefDates :
          /\ call' = Call("_next_due_date", b, ref, None, None, None, None, None)
          /\ ret' = _next_due_date(b, ref)
    /\ UNCHANGED << db_vars, handler_vars, in_flight >>

\* period_start = _previous_due_date(bill, due), on the due date just computed
PreviousDue ==
    /\ call.op = "_next_due_date"
    /\ call' = Call("_previous_due_date", call.bill, call.ref, ret, None, None, None, None)
    /\ ret' = _previous_due_date(call.bill, ret)
    /\ UNCHANGED << db_vars, handler_vars, in_flight >>

\* the due dates of one bill in a caller window (occurrences, lines 292-308)
EnumerateDue ==
    /\ call.op = "none"
    /\ \E b \in SchedulePool, w \in Windows :
          /\ call' = Call("due_dates", b, None, None, w[1], w[2], None, None)
          /\ ret' = DueDatesFor(b, w[1], w[2])
    /\ UNCHANGED << db_vars, handler_vars, in_flight >>

\* occurrences, line 311: period_start = _period_start_for(b, due) for one of
\* the due dates just enumerated
PeriodStartFor ==
    /\ call.op = "due_dates"
    /\ \E i \in 1..Len(ret) :
          /\ call' = Call("_period_start_for", call.bill, None, ret[i],
                          call.date_from, call.date_to, None, None)
          /\ ret' = _period_start_for(call.bill, ret[i])
    /\ UNCHANGED << db_vars, handler_vars, in_flight >>

CalcNext == NextDue \/ PreviousDue \/ EnumerateDue \/ PeriodStartFor

CalcSpec == CalcInit /\ [][CalcNext]_vars

\* min(day, number of days in the month of date d)
ClampedDay(day, d) == Min(day, _last_dom(YearOf(d), MonthOf(d)))

\* C11: for a weekly schedule with weekday w in 0..6 and any ref,
\* _next_due_date returns the smallest date d >= ref whose weekday is w, so
\* ref <= d <= ref + 6.
C11_WeeklyNextIsFirstMatchingWeekday ==
    (call.op = "_next_due_date" /\ call.bill.frequency = "weekly"
        /\ call.bill.weekday \in 0..6) =>
        /\ ret >= call.ref
        /\ ret <= call.ref + 6
        /\ Weekday(ret) = call.bill.weekday
        /\ \A d \in call.ref .. (ret - 1) : Weekday(d) # call.bill.weekday

C11_Witness ==
    /\ call.op = "_next_due_date"
    /\ call.bill.frequency = "weekly"
    /\ call.bill.weekday = 0
    /\ call.bill.start_date = None
    /\ Weekday(call.ref) = 1
    /\ ret = call.ref + 6

\* C12: for a monthly schedule with day_of_month dom and no start_date /
\* end_date, _next_due_date(ref) is the smallest date d >= ref whose day is
\* min(dom, days in d's month); day_of_month = 31 in February 2023 gives
\* 2023-02-28, and the monthly enumerator yields that same date for that
\* month.
C12_MonthlyNextIsFirstClampedDay ==
    /\ (call.op = "_next_due_date" /\ call.bill.frequency = "monthly"
          /\ call.bill.day_of_month # None
          /\ call.bill.start_date = None /\ call.bill.end_date = None) =>
          /\ ret >= call.ref
          /\ DayOf(ret) = ClampedDay(call.bill.day_of_month, ret)
          /\ \A d \in call.ref .. (ret - 1) :
                DayOf(d) # ClampedDay(call.bill.day_of_month, d)
          /\ (call.bill.day_of_month = 31
                /\ call.ref >= MkDate(2023, 2, 1)
                /\ call.ref <= MkDate(2023, 2, 28)) => ret = MkDate(2023, 2, 28)
    /\ (call.op = "due_dates" /\ call.bill.frequency = "monthly"
          /\ call.bill.day_of_month = 31
          /\ call.bill.start_date = None /\ call.bill.end_date = None
          /\ call.date_from <= MkDate(2023, 2, 1)
          /\ call.date_to >= MkDate(2023, 2, 28)) =>
          { ret[i] : i \in { k \in 1..Len(ret) :
                               /\ ret[k] >= MkDate(2023, 2, 1)
                               /\ ret[k] <= MkDate(2023, 2, 28) } }
             = { MkDate(2023, 2, 28) }

C12_Witness ==
    /\ call.op = "_next_due_date"
    /\ call.bill.frequency = "monthly"
    /\ call.bill.day_of_month = 31
    /\ call.bill.start_date = None
    /\ call.bill.end_date = None
    /\ call.ref = MkDate(2023, 2, 1)
    /\ ret = MkDate(2023, 2, 28)

\* C13: for a yearly schedule with start_date (the anchor), no end_date and
\* ref >= start_date, _next_due_date returns the smallest date >= ref in the
\* anchor's month whose day is min(anchor day, days in that month that
\* year); anchor 2024-02-29 and ref 2024-03-01 give 2025-02-28.
C13_YearlyNextIsFirstClampedAnniversary ==
    (call.op = "_next_due_date" /\ call.bill.frequency = "yearly"
        /\ call.bill.start_date # None /\ call.bill.end_date = None
        /\ call.ref >= call.bill.start_date) =>
        LET anchor == call.bill.start_date
            \* the one date of year y in the anchor's month on the clamped day
            Anniversary(y) ==
                MkDate(y, MonthOf(anchor),
                       Min(DayOf(anchor), _last_dom(y, MonthOf(anchor))))
        IN  /\ ret >= call.ref
            /\ ret = Anniversary(YearOf(ret))
            /\ \A y \in YearOf(call.ref) .. YearOf(ret) :
                  Anniversary(y) >= call.ref => Anniversary(y) >= ret
            /\ (anchor = MkDate(2024, 2, 29) /\ call.ref = MkDate(2024, 3, 1))
                  => ret = MkDate(2025, 2, 28)

C13_Witness ==
    /\ call.op = "_next_due_date"
    /\ call.bill.frequency = "yearly"
    /\ call.bill.start_date = MkDate(2024, 2, 29)
    /\ call.bill.end_date = None
    /\ call.ref = MkDate(2024, 3, 1)
    /\ ret = MkDate(2025, 2, 28)

\* bill with its bounds taken away: no end_date; a yearly bill keeps its
\* anchor month/day in a year before every date used (1600), others lose start_date
WithoutBounds(b) ==
    [b EXCEPT !.end_date = None,
              !.start_date = IF b.frequency = "yearly" /\ @ # None
                             THEN MkDate(1600, MonthOf(@), DayOf(@))
                             ELSE None]

\* no start_date / end_date clamp changed the next due date computed from
\* ref, nor the previous due date computed from due
NoBoundClamp(b, ref, due) ==
    /\ due = _next_due_date(WithoutBounds(b), ref)
    /\ _previous_due_date(b, due) = _previous_due_date(WithoutBounds(b), due)

\* the schedule's day fits the month of due and the month one period earlier
NoMonthLengthClamp(b, due) ==
    IF b.frequency = "weekly" THEN TRUE
    ELSE IF b.frequency = "monthly" THEN
        LET dom == IF b.day_of_month = None THEN 1 ELSE b.day_of_month
            pm  == _prev_month(YearOf(due), MonthOf(due))
        IN  /\ dom <= _last_dom(YearOf(due), MonthOf(due))
            /\ dom <= _last_dom(pm[1], pm[2])
    ELSE
        LET ad == IF b.start_date = None THEN 1 ELSE DayOf(b.start_date)
            am == IF b.start_date = None THEN 1 ELSE MonthOf(b.start_date)
        IN  /\ ad <= _last_dom(YearOf(due), am)
            /\ ad <= _last_dom(YearOf(due) - 1, am)

\* due minus one period: 7 days, or the same day one calendar month
\* earlier, or the same month and day one year earlier
OnePeriodBefore(b, due) ==
    IF b.frequency = "weekly" THEN due - 7
    ELSE IF b.frequency = "monthly" THEN
        LET pm == _prev_month(YearOf(due), MonthOf(due))
        IN  MkDate(pm[1], pm[2], DayOf(due))
    ELSE MkDate(YearOf(due) - 1, MonthOf(due), DayOf(due))

UnclampedRoundTrip ==
    /\ call.op = "_previous_due_date"
    /\ NoBoundClamp(call.bill, call.ref, call.due)
    /\ NoMonthLengthClamp(call.bill, call.due)

EffectiveStart(b, date_from) ==
    IF b.start_date # None /\ b.start_date > date_from THEN b.start_date ELSE date_from

EffectiveEnd(b, date_to) ==
    IF b.end_date # None /\ b.end_date < date_to THEN b.end_date ELSE date_to

Enumerated == { ret[i] : i \in 1..Len(ret) }

\* C15: for a weekly schedule with weekday w and window [start, end] the
\* enumerator yields exactly the dates in [start, end] whose weekday is w,
\* each once; weekday 2 and [2024-01-01, 2024-01-31] give 01-03, 01-10,
\* 01-17, 01-24 and 01-31.
C15_WeeklyEnumeratesMatchingWeekdays ==
    (call.op = "due_dates" /\ call.bill.frequency = "weekly"
        /\ call.bill.weekday # None) =>
        LET start == EffectiveStart(call.bill, call.date_from)
            end   == EffectiveEnd(call.bill, call.date_to)
            days  == { d \in start..end : Weekday(d) = call.bill.weekday }
        IN  /\ Enumerated = days
            /\ Len(ret) = Cardinality(days)
            /\ (call.bill.weekday = 2 /\ start = MkDate(2024, 1, 1)
                  /\ end = MkDate(2024, 1, 31)) =>
                  ret = << MkDate(2024, 1, 3), MkDate(2024, 1, 10),
                           MkDate(2024, 1, 17), MkDate(2024, 1, 24),
                           MkDate(2024, 1, 31) >>

C15_Witness ==
    /\ call.op = "due_dates"
    /\ call.bill.frequency = "weekly"
    /\ call.bill.weekday = 2
    /\ call.bill.start_date = None
    /\ call.date_from = MkDate(2024, 1, 1)
    /\ call.date_to = MkDate(2024, 1, 31)
    /\ Len(ret) = 5
    /\ ret[5] = MkDate(2024, 1, 31)

\* C16: for every schedule and caller window the enumerated due dates are a
\* finite strictly ascending sequence, every date inside both
\* [window_start, window_end] and the schedule's [start_date, end_date];
\* when that intersection is empty the sequence is empty.
C16_EnumerationAscendingInsideBothWindows ==
    call.op = "due_dates" =>
        /\ \A i \in 1..(Len(ret) - 1) : ret[i] < ret[i + 1]
        /\ \A i \in 1..Len(ret) :
              /\ ret[i] >= call.date_from
              /\ ret[i] <= call.date_to
              /\ (call.bill.start_date # None => ret[i] >= call.bill.start_date)
              /\ (call.bill.end_date # None => ret[i] <= call.bill.end_date)
        /\ (EffectiveStart(call.bill, call.date_from)
              > EffectiveEnd(call.bill, call.date_to)) => ret = << >>

C16_Witness ==
    /\ call.op = "due_dates"
    /\ call.bill.frequency = "monthly"
    /\ call.bill.start_date # None
    /\ call.bill.end_date # None
    /\ call.date_from < call.bill.start_date
    /\ call.date_to > call.bill.end_date
    /\ Len(ret) >= 2
    /\ ret[1] = MkDate(2023, 3, 31)
    /\ ret[Len(ret)] = MkDate(2024, 5, 31)

-----------------------------------------------------------------------------
(* bills.py: GET /bills/occurrences and POST /bills/{id}/contribute        *)

\* round(n / d, 0) for n >= 0, d > 0: nearest integer, exact ties to even
RoundRatio(n, d) ==
    LET q == n \div d
        r == n % d
    IN  IF 2 * r < d THEN q
        ELSE IF 2 * r > d THEN q + 1
        ELSE IF q % 2 = 0 THEN q
        ELSE q + 1

\* the fraction n/d (n >= 0, d > 0) in lowest terms
Ratio(n, d) == LET g == GCD(d, n) IN [num |-> n \div g, den |-> d \div g]

\* round(10000 * n / d) for 0 <= n, d > 0, taken in two steps of 100 so that
\* no intermediate product leaves 32 bits
RoundTenThousandths(n, d) ==
    LET hi == (n * 100) \div d
        r  == (n * 100) % d
    IN  hi * 100 + RoundRatio(r * 100, d)

\* OccProgress without the upper clamp min(1.0, ...)
OccProgressNoUpperClamp(paid, contrib, amount) ==
    IF paid THEN Ratio(1, 1)
    ELSE Ratio(Max(0, contrib), amount)

\* line 316: progress = 1.0 if paid else max(0.0, min(1.0, contrib / amount)),
\* as the exact fraction num/den; not paid implies amount > paid_amt >= 0
OccProgress(paid, contrib, amount) ==
    IF paid THEN Ratio(1, 1)
    ELSE Ratio(Max(0, Min(amount, contrib)), amount)

\* snapshot.py line 277:
\* progress = 1.0 if paid else (0.0 if amt <= 0 else min(1.0, contrib / amt))
SnapshotProgress(paid, contrib, amt) ==
    IF paid THEN Ratio(1, 1)
    ELSE IF amt <= 0 THEN Ratio(0, 1)
    ELSE Ratio(Min(amt, contrib), amt)

\* SoonWeight without max(days_to_due, 0)
SoonWeightOverdueUnclamped(days_to_due, due_soon_days) ==
    IF days_to_due <= due_soon_days
    THEN Max(0, due_soon_days - days_to_due)
    ELSE 0

\* lines 318-320: soon_weight, as the numerator over due_soon_days
SoonWeight(days_to_due, due_soon_days) ==
    IF days_to_due <= due_soon_days
    THEN Max(0, due_soon_days - Max(days_to_due, 0))
    ELSE 0

\* line 321: score = 0.6 * soon_weight + 0.4 * (1.0 - progress), exact
OccScore(soon, due_soon_days, progress) ==
    [num |-> 3 * soon * progress.den
               + 2 * (progress.den - progress.num) * due_soon_days,
     den |-> 5 * due_soon_days * progress.den]

\* lines 310-332: the record appended for one due date; period_start,
\* progress and score are the loop's locals, kept beside the reported
\* fields.  progress_pct counts 0.01 %, priority_score counts 0.0001.
OccurrenceRow(b, due, tdy, due_soon_days, rows) ==
    LET period_start == _period_start_for(b, due)
        sums         == _ledger_sums(rows, b.id, period_start, due)
        contrib      == sums[1]
        paid_amt     == sums[2]
        amount       == b.amount
        paid         == IsPaid(paid_amt, amount)
        progress     == OccProgress(paid, contrib, amount)
        days_to_due  == due - tdy
        soon         == SoonWeight(days_to_due, due_soon_days)
        score        == OccScore(soon, due_soon_days, progress)
    IN  [bill_id        |-> b.id,
         name           |-> b.name,
         due            |-> due,
         amount         |-> amount,
         progress_pct   |-> RoundTenThousandths(progress.num, progress.den),
         paid           |-> paid,
         saved_so_far   |-> Round2(contrib),
         contrib_sum    |-> Round2(contrib),
         paid_sum       |-> Round2(paid_amt),
         days_to_due    |-> days_to_due,
         due_soon       |-> days_to_due <= due_soon_days,
         priority_score |-> RoundTenThousandths(score.num, score.den),
         period_start   |-> period_start,
         progress       |-> progress,
         score          |-> score]

\* the rows of one bill, in due-date order
BillOccurrences(b, tdy, date_from, date_to, due_soon_days, rows) ==
    LET dates == DueDatesFor(b, date_from, date_to)
    IN  [k \in 1..Len(dates) |-> OccurrenceRow(b, dates[k], tdy, due_soon_days, rows)]

RECURSIVE OccurrencesOut(_, _, _, _, _, _)
\* lines 291-332: out after the loop over bills, before the sort
OccurrencesOut(bs, tdy, date_from, date_to, due_soon_days, rows) ==
    IF bs = << >> THEN << >>
    ELSE BillOccurrences(Head(bs), tdy, date_from, date_to, due_soon_days, rows)
           \o OccurrencesOut(Tail(bs), tdy, date_from, date_to, due_soon_days, rows)

\* key (due_soon, priority_score) of x greater than that of y; True > False
OccKeyGT(x, y) ==
    \/ x.due_soon /\ ~y.due_soon
    \/ x.due_soon = y.due_soon /\ x.priority_score > y.priority_score

\* key priority_score alone
OccScoreOnlyGT(x, y) == x.priority_score > y.priority_score

\* SortOccurrences by priority_score alone
SortOccurrencesByScoreOnly(out) == StableSortDesc(out, OccScoreOnlyGT)

\* line 335: out.sort(key=lambda x: (x["due_soon"], x["priority_score"]), reverse=True)
SortOccurrences(out) == StableSortDesc(out, OccKeyGT)

MaxContribs == 1     \* contribute requests that insert a row

\* yoga: weekly on Wednesday, started on Monday 2024-01-08; loan: monthly on
\* the 31st from 2023-12-15 to 2024-06-30; gift: amount 0
OccBillPool ==
    BillPool \o
    << Bill("yoga", 1006,  "weekly",  2, None, MkDate(2024, 1, 8), None),
       Bill("loan", 50000, "monthly", None, 31, MkDate(2023, 12, 15), MkDate(2024, 6, 30)),
       Bill("gift", 0,     "weekly",  4, None, None, None) >>

OccQuery(date_from, date_to, due_soon_days) ==
    [date_from |-> date_from, date_to |-> date_to, due_soon_days |-> due_soon_days]

\* query parameters from, to, due_soon_days (ge=1, le=60)
OccQueries ==
    { OccQuery(MkDate(2024, 1, 1),  MkDate(2024, 1, 31), 7),
      OccQuery(MkDate(2023, 12, 20), MkDate(2024, 2, 5), 14) }

\* ContribBody.amount
ContribAmounts == { 0, 500 }

OccInit ==
    /\ today = Today
    /\ bills \in SubSeqs(OccBillPool, MaxBills)
    /\ ledger \in SubSeqs(LedgerPool, MaxLedger)
    /\ \A i \in 1..Len(ledger) :
          \E j \in 1..Len(bills) : bills[j].id = ledger[i].bill_id
    /\ budget_rows = << BudgetPool[2] >>
    /\ ef_figures \in { e \in EfChoices : EfNeed(e) = 0 }
    /\ HandlerIdle
    /\ call = NoCall
    /\ ret = None
    /\ in_flight = << >>

\* GET /bills/occurrences?from=..&to=..&due_soon_days=..; a run ends with
\* its listing
Occurrences ==
    /\ pc = "idle"
    /\ call.op # "occurrences"
    /\ \E q \in OccQueries :
          /\ call' = Call("occurrences", None, None, None, q.date_from, q.date_to,
                          q.due_soon_days, None)
          /\ ret' = SortOccurrences(
                       OccurrencesOut(bills, today, q.date_from, q.date_to,
                                      q.due_soon_days, ledger))
    /\ UNCHANGED << db_vars, handler_vars, in_flight >>

\* POST /bills/{id}/contribute, lines 244-251; the inserted row gets the
\* current time as occurred_at
Contribute ==
    /\ pc = "idle"
    /\ call.op # "occurrences"
    /\ Len(ledger) < MaxLedger + MaxContribs
    /\ \E i \in 1..Len(bills), a \in ContribAmounts :
          /\ call' = Call("contribute", bills[i].id, None, None, None, None, None, a)
          /\ IF a <= 0
             THEN /\ ret' = [status |-> 400]
                  /\ ledger' = ledger
             ELSE /\ ret' = [status |-> 200]
                  /\ ledger' = Append(ledger, LedgerRow(bills[i].id, today, a))
    /\ UNCHANGED << today, bills, budget_rows, ef_figures, handler_vars, in_flight >>

\* POST plan_breakdown on the tables as loaded
PlanBreakdown == call.op = "none" /\ Next

OccNext == Occurrences \/ Contribute \/ PlanBreakdown

OccSpec == OccInit /\ [][OccNext]_vars

ListingReturned == call.op = "occurrences"

\* the listing's rows before the sort, recomputed on a ledger
ListingOver(rows) ==
    OccurrencesOut(bills, today, call.date_from, call.date_to,
                   call.due_soon_days, rows)

\* the ledger without its newest row
LedgerBefore == SubSeq(ledger, 1, Len(ledger) - 1)

\* fraction a <= fraction b
RatioLE(a, b) == a.num * b.den <= b.num * a.den

InUnitInterval(x) == x.den > 0 /\ 0 <= x.num /\ x.num <= x.den

\* C17: for every occurrence progress lies in [0,1] and is 1 when the
\* occurrence is paid (in the listing and with the snapshot's formula), and
\* with amount > 0 and the paid sum fixed it does not decrease when the
\* contributed sum grows (the newest ledger row being a contribution).
C17_ProgressBoundedAndMonotone ==
    ListingReturned =>
        /\ \A i \in 1..Len(ret) :
              LET sums == _ledger_sums(ledger, ret[i].bill_id,
                                       ret[i].period_start, ret[i].due)
                  snap == SnapshotProgress(ret[i].paid, sums[1], ret[i].amount)
              IN  /\ InUnitInterval(ret[i].progress)
                  /\ ret[i].progress_pct \in 0..10000
                  /\ ret[i].paid => /\ ret[i].progress.num = ret[i].progress.den
                                    /\ ret[i].progress_pct = 10000
                  /\ InUnitInterval(snap)
                  /\ ret[i].paid => snap.num = snap.den
        /\ (ledger # << >> /\ ledger[Len(ledger)].amount > 0) =>
              LET before == ListingOver(LedgerBefore)
              IN  \A i \in 1..Len(ret), k \in 1..Len(before) :
                     (before[k].bill_id = ret[i].bill_id /\ before[k].due = ret[i].due)
                        => /\ RatioLE(before[k].progress, ret[i].progress)
                           /\ before[k].progress_pct <= ret[i].progress_pct

C17_Witness ==
    /\ ListingReturned
    /\ ledger # << >>
    /\ ledger[Len(ledger)].amount > 0
    /\ \E i \in 1..Len(ret) : ret[i].paid
    /\ \E i \in 1..Len(ret), k \in 1..Len(ListingOver(LedgerBefore)) :
          LET was == ListingOver(LedgerBefore)[k]
          IN  /\ was.bill_id = ret[i].bill_id
              /\ was.due = ret[i].due
              /\ ~ret[i].paid
              /\ 0 < was.progress.num
              /\ ~RatioLE(ret[i].progress, was.progress)
              /\ ret[i].progress.num < ret[i].progress.den

\* C18: priority_score = 0.6 * soon_weight + 0.4 * (1 - progress) lies in
\* [0,1] for every occurrence, overdue ones and ones far beyond
\* due_soon_days included, and is 1.0 when days_to_due = 0 and progress = 0;
\* in the occurrences listing and in the bills stage of plan_breakdown.
C18_PriorityScoreInUnitInterval ==
    /\ ListingReturned =>
          \A i \in 1..Len(ret) :
              /\ InUnitInterval(ret[i].score)
              /\ ret[i].priority_score \in 0..10000
              /\ (ret[i].days_to_due = 0 /\ ret[i].progress.num = 0) =>
                    /\ ret[i].score.num = ret[i].score.den
                    /\ ret[i].priority_score = 10000
    /\ \A i \in 1..Len(scored) :
          /\ InUnitInterval(scored[i].score)
          /\ (scored[i].due = today
                /\ scored[i].need = BillById(scored[i].bill_id).amount) =>
                scored[i].score.num = scored[i].score.den

C18_Witness ==
    /\ ListingReturned
    /\ \E i \in 1..Len(ret) : ret[i].days_to_due < 0 /\ ~ret[i].paid
    /\ \E i \in 1..Len(ret) : ret[i].days_to_due > call.due_soon_days
    /\ \E i \in 1..Len(ret) :
          /\ ret[i].days_to_due = 0
          /\ ret[i].progress.num = 0
          /\ ret[i].priority_score = 10000

\* position of row r in the sequence out
RowIndex(out, r) == CHOOSE k \in 1..Len(out) : out[k] = r

\* C19: in the listing every due-soon occurrence precedes every
\* non-due-soon one whatever their scores; within one due_soon value a
\* higher priority_score precedes a lower one; occurrences with equal
\* (due_soon, priority_score) keep the order they were produced in.
C19_ListingOrder ==
    ListingReturned =>
        LET out == ListingOver(ledger)
        IN  /\ Len(ret) = Len(out)
            /\ Range(ret) = Range(out)
            /\ \A i, j \in 1..Len(ret) :
                  i < j =>
                    /\ ret[i].due_soon \/ ~ret[j].due_soon
                    /\ ret[i].due_soon = ret[j].due_soon
                          => ret[i].priority_score >= ret[j].priority_score
                    /\ (ret[i].due_soon = ret[j].due_soon
                          /\ ret[i].priority_score = ret[j].priority_score)
                          => RowIndex(out, ret[i]) < RowIndex(out, ret[j])

C19_Witness ==
    /\ ListingReturned
    /\ \E i, j \in 1..Len(ret) :
          /\ i < j
          /\ ret[i].due_soon
          /\ ~ret[j].due_soon
          /\ ret[i].priority_score < ret[j].priority_score
    /\ \E i, j \in 1..Len(ret) :
          /\ i < j
          /\ ret[i].bill_id # ret[j].bill_id
          /\ ret[i].due_soon = ret[j].due_soon
          /\ ret[i].priority_score = ret[j].priority_score

\* the scheduled due date one period before due, whatever the bill's bounds
PreviousScheduled(b, due) ==
    IF b.frequency = "weekly" THEN due - 7
    ELSE IF b.frequency = "monthly" THEN
        LET pm == _prev_month(YearOf(due), MonthOf(due))
        IN  MkDate(pm[1], pm[2], Min(b.day_of_month, _last_dom(pm[1], pm[2])))
    ELSE
        LET y == YearOf(due) - 1
            m == MonthOf(b.start_date)
        IN  MkDate(y, m, Min(DayOf(b.start_date), _last_dom(y, m)))

\* C20 as claimed: for every occurrence of every schedule (weekly, monthly
\* or yearly) that has a start_date, the period start used for ledger
\* aggregation is the previous due date, raised to start_date when
\* start_date is later; so it is never earlier than start_date.  (The
\* weekly branch of _previous_due_date does not look at start_date.)
C20_PeriodStartNotBeforeStartDate ==
    ListingReturned =>
        \A i \in 1..Len(ret) :
            LET b == BillById(ret[i].bill_id)
            IN  b.start_date # None =>
                  /\ ret[i].period_start
                        = Max(PreviousScheduled(b, ret[i].due), b.start_date)
                  /\ ret[i].period_start >= b.start_date

-----------------------------------------------------------------------------
(* Calculator and enumerator against each other                            *)

\* the schedule passes create_bill's checks (lines 200-205)
ScheduleValid(b) ==
    /\ b.frequency = "weekly" => b.weekday # None
    /\ b.frequency = "monthly" => b.day_of_month # None
    /\ b.frequency = "yearly" => b.start_date # None

\* C23: for every schedule (with any start_date / end_date) and every
\* reference date ref, _next_due_date returns a date on or after ref.
\* (Refuted: the end_date clamp of lines 110-111 and 126-127 returns an
\* end_date that lies before ref.)
C23_NextDueOnOrAfterRef ==
    call.op = "_next_due_date" => ret >= call.ref

\* C24: for every schedule and every due date produced by _next_due_date or
\* by the enumerator, _previous_due_date(bill, due) is strictly before due.
\* (Refuted: the start_date override returns start_date for the occurrence
\* due on start_date itself.)
C24_PreviousStrictlyBeforeDue ==
    call.op \in { "_previous_due_date", "_period_start_for" } => ret < call.due

\* C28: if _next_due_date(schedule, ref) returns d, then d is the first date
\* the enumerator yields for the caller window [ref, d] cut to the
\* schedule's start_date / end_date.  (Refuted: a due date raised to
\* start_date or lowered to end_date is no day the enumerator yields.)
C28_CalculatorAgreesWithEnumerator ==
    call.op = "_next_due_date" =>
        LET dates == DueDatesFor(call.bill, call.ref, ret)
        IN  /\ dates # << >>
            /\ dates[1] = ret

-----------------------------------------------------------------------------
(* bills.py: POST /bills, PATCH /bills/{id}, DELETE /bills/{id}            *)

\* position of the row with this id in the table, 0 when there is none
RowOf(tbl, id) ==
    IF \E j \in 1..Len(tbl) : tbl[j].id = id
    THEN CHOOSE j \in 1..Len(tbl) : tbl[j].id = id
    ELSE 0

\* create_bill: 400 when the frequency's field is missing; otherwise INSERT
\* ... ON CONFLICT (id) DO NOTHING
create_bill(tbl, b) ==
    IF ~ScheduleValid(b) THEN [status |-> 400, created |-> FALSE, bills |-> tbl]
    ELSE IF RowOf(tbl, b.id) # 0
         THEN [status |-> 201, created |-> FALSE, bills |-> tbl]
         ELSE [status |-> 201, created |-> TRUE, bills |-> Append(tbl, b)]

\* patch_bill: patch holds the fields of BillPatch that are not None; UPDATE
\* bills SET those fields WHERE id = id
patch_bill(tbl, id, patch) ==
    IF DOMAIN patch = {} THEN [status |-> 200, bills |-> tbl]
    ELSE IF RowOf(tbl, id) = 0 THEN [status |-> 404, bills |-> tbl]
    ELSE [status |-> 200,
          bills  |-> [tbl EXCEPT ![RowOf(tbl, id)] =
                        [k \in DOMAIN @ |->
                            IF k \in DOMAIN patch THEN patch[k] ELSE @[k]]]]

\* delete_bill: DELETE FROM bills WHERE id = id
delete_bill(tbl, id) ==
    IF RowOf(tbl, id) = 0 THEN [status |-> 404, bills |-> tbl]
    ELSE [status |-> 204,
          bills  |-> SelectSeq(tbl, LAMBDA r : r.id # id)]

BillIds == { "gym", "rent", "club" }

\* BillCreate bodies: one complete and one incomplete schedule per frequency
CreateBodies ==
    { Bill("gym",  1006,   "weekly",  2,    None, None, None),
      Bill("gym",  1006,   "weekly",  None, None, None, None),
      Bill("rent", 300000, "monthly", None, 13,   None, None),
      Bill("rent", 300000, "monthly", None, None, None, None),
      Bill("club", 2000,   "yearly",  None, None, MkDate(2023, 1, 14), None),
      Bill("club", 2000,   "yearly",  None, None, None, None) }

\* BillPatch bodies, as the fields that are set
PatchPool ==
    << << >>,
       [amount |-> 500],
       [day_of_month |-> 15],
       [frequency |-> "monthly"] >>

CrudInit ==
    /\ today = Today
    /\ bills = << >>
    /\ ledger = << >>
    /\ budget_rows = << >>
    /\ ef_figures \in { e \in EfChoices : EfNeed(e) = 0 }
    /\ HandlerIdle
    /\ call = NoCall
    /\ ret = None
    /\ in_flight = << >>

CreateBill ==
    /\ Len(bills) < MaxBills
    /\ \E b \in CreateBodies :
          /\ call' = Call("create_bill", b, None, None, None, None, None, None)
          /\ ret' = [status  |-> create_bill(bills, b).status,
                     created |-> create_bill(bills, b).created]
          /\ bills' = create_bill(bills, b).bills
    /\ UNCHANGED << today, ledger, budget_rows, ef_figures, handler_vars, in_flight >>

PatchBill ==
    /\ \E id \in BillIds, k \in 1..Len(PatchPool) :
          /\ call' = Call("patch_bill", [id |-> id, body |-> PatchPool[k]],
                          None, None, None, None, None, None)
          /\ ret' = [status |-> patch_bill(bills, id, PatchPool[k]).status]
          /\ bills' = patch_bill(bills, id, PatchPool[k]).bills
    /\ UNCHANGED << today, ledger, budget_rows, ef_figures, handler_vars, in_flight >>

DeleteBill ==
    /\ \E id \in BillIds :
          /\ call' = Call("delete_bill", [id |-> id], None, None, None, None, None, None)
          /\ ret' = [status |-> delete_bill(bills, id).status]
          /\ bills' = delete_bill(bills, id).bills
    /\ UNCHANGED << today, ledger, budget_rows, ef_figures, handler_vars, in_flight >>

CrudNext == CreateBill \/ PatchBill \/ DeleteBill

CrudSpec == CrudInit /\ [][CrudNext]_vars

\* C21: after any sequence of create_bill, patch_bill and delete_bill
\* requests every stored bill has the field its frequency requires (weekly:
\* weekday, monthly: day_of_month, yearly: start_date), and a rejected
\* request leaves the stored bills unchanged.  (Refuted: patch_bill stores a
\* new frequency without looking at the other fields.)
C21_StoredBillsKeepScheduleInvariant ==
    [][/\ \A i \in 1..Len(bills') : ScheduleValid(bills'[i])
       /\ ret'.status >= 400 => bills' = bills]_vars

-----------------------------------------------------------------------------
(* bills.py: POST /bills/{id}/mark-paid and POST /bills/{id}/contribute    *)

MaxPaidBills == 1      \* rows in table bills while mark_paid is exercised
MaxPayments  == 2      \* mark_paid rows inserted in one run
MaxClients   == 2      \* clients sending mark_paid at the same time

Clients == 1..MaxClients

\* gym: weekly, due today; rent: monthly, due in 3 days; lease: ended on
\* 2023-12-31; plan: starts on 2024-03-01; gift: nothing to pay; refund: a
\* negative amount (BillCreate.amount is any float)
PaidBillPool ==
    << BillPool[2],
       BillPool[1],
       Bill("lease", 50000, "monthly", None, 31, MkDate(2023, 6, 15), MkDate(2023, 12, 31)),
       Bill("plan",  2000,  "monthly", None, 15, MkDate(2024, 3, 1), None),
       Bill("gift",  0,     "weekly",  4, None, None, None),
       Bill("refund", -5000, "weekly", 2, None, None, None) >>

PaidIds == { PaidBillPool[i].id : i \in 1..Len(PaidBillPool) }

\* the row with amount +amt instead of -amt
PaymentRowPositive(b, tdy) == LedgerRow(b.id, tdy, b.amount)

\* line 276: INSERT INTO bill_ledger (bill_id, amount, note) VALUES (id,
\* -amt, "paid"); occurred_at is the time of the insert
PaymentRow(b, tdy) == LedgerRow(b.id, tdy, -b.amount)

\* lines 265-270: the locals of mark_paid after its two SELECTs
MarkPaidLocals(b, tdy, rows) ==
    LET next_due     == _next_due_date(b, tdy)
        period_start == _previous_due_date(b, next_due)
        sums         == _ledger_sums(rows, b.id, period_start, next_due)
    IN  [bill |-> b, next_due |-> next_due, period_start |-> period_start,
         contrib |-> sums[1], paid_sum |-> sums[2]]

MarkPaidResponse(l, already_paid) ==
    [status |-> 200, already_paid |-> already_paid,
     period_start |-> l.period_start, due |-> l.next_due]

\* the requests in flight without client c's
Without(c) == [k \in DOMAIN in_flight \ {c} |-> in_flight[k]]

\* the payments inserted today for bill id
PaymentsToday(rows, id) ==
    { k \in 1..Len(rows) : /\ rows[k].bill_id = id
                           /\ rows[k].amount < 0
                           /\ rows[k].occurred_at = today }

\* lines 259-270: client c's request reads the bill (404 when there is
\* none) and the ledger sums of its current period
MarkPaidRead(c) ==
    /\ pc = "idle"
    /\ c \notin DOMAIN in_flight
    /\ \E id \in PaidIds :
          /\ Cardinality(PaymentsToday(ledger, id))
                + Cardinality({ k \in DOMAIN in_flight : in_flight[k].bill.id = id })
                < MaxPayments
          /\ IF RowOf(bills, id) = 0
             THEN /\ call' = Call("mark_paid", id, None, None, None, None, None, None)
                  /\ ret' = [status |-> 404]
                  /\ in_flight' = in_flight
             ELSE /\ in_flight' = (c :> MarkPaidLocals(bills[RowOf(bills, id)], today, ledger))
                                    @@ in_flight
                  /\ UNCHANGED << call, ret >>
    /\ UNCHANGED << db_vars, handler_vars >>

\* lines 272-278: already paid, or insert the payment and commit
MarkPaidWrite(c) ==
    /\ c \in DOMAIN in_flight
    /\ LET l == in_flight[c]
       IN  /\ call' = Call("mark_paid", l.bill.id, None, l.next_due, None, None, None, None)
           /\ IF IsPaid(l.paid_sum, l.bill.amount)
              THEN /\ ret' = MarkPaidResponse(l, TRUE)
                   /\ ledger' = ledger
              ELSE /\ ret' = MarkPaidResponse(l, FALSE)
                   /\ ledger' = Append(ledger, PaymentRow(l.bill, today))
    /\ in_flight' = Without(c)
    /\ UNCHANGED << today, bills, budget_rows, ef_figures, handler_vars >>

LedgerInit ==
    /\ today = Today
    /\ bills \in SubSeqs(PaidBillPool, MaxPaidBills)
    /\ ledger \in SubSeqs(LedgerPool, MaxLedger)
    /\ \A i \in 1..Len(ledger) :
          \E j \in 1..Len(bills) : bills[j].id = ledger[i].bill_id
    /\ budget_rows = << >>
    /\ ef_figures \in { e \in EfChoices : EfNeed(e) = 0 }
    /\ HandlerIdle
    /\ call = NoCall
    /\ ret = None
    /\ in_flight = << >>

\* one client: each request is answered before the next is sent
LedgerNext == MarkPaidRead(1) \/ MarkPaidWrite(1) \/ Contribute

LedgerSpec == LedgerInit /\ [][LedgerNext]_vars

\* a mark_paid request that got past the 404 check is answered in this step
MarkPaidAnswered ==
    /\ DOMAIN in_flight' # DOMAIN in_flight
    /\ DOMAIN in_flight' \subseteq DOMAIN in_flight

\* C22: once a mark_paid call has inserted a payment entry for a bill, any
\* later mark_paid call for that bill in the same period inserts no ledger
\* entry and reports already_paid = true; also for bills whose start_date is
\* in the future or whose end_date is in the past.  (today does not change
\* during a run, so every call for a bill has the same current period.)
C22_MarkPaidIdempotentPerPeriod ==
    [][(MarkPaidAnswered /\ PaymentsToday(ledger, call'.bill) # {})
          => (ledger' = ledger /\ ret'.already_paid)]_vars

\* C25: after any sequence of contribute and mark_paid requests the ledger
\* is append-only and sign-correct: a step leaves the ledger as it is or
\* appends one row; a row appended by contribute has the request's strictly
\* positive amount, and a request with amount <= 0 is rejected and appends
\* nothing; a row appended by mark_paid is negative with the magnitude of
\* the bill's amount.
C25_LedgerAppendOnlySignCorrect ==
    [][/\ \/ ledger' = ledger
          \/ /\ Len(ledger') = Len(ledger) + 1
             /\ SubSeq(ledger', 1, Len(ledger)) = ledger
             /\ LET r == ledger'[Len(ledger')]
                IN  /\ r.bill_id = call'.bill
                    /\ \/ /\ call'.op = "contribute"
                          /\ r.amount = call'.amount
                          /\ r.amount > 0
                       \/ /\ call'.op = "mark_paid"
                          /\ r.amount < 0
                          /\ -r.amount = bills[RowOf(bills, r.bill_id)].amount
       /\ (call'.op = "contribute" /\ call'.amount <= 0)
             => (ledger' = ledger /\ ret'.status = 400)]_vars

\* a contribution and then a payment were appended for the same bill
C25_Witness ==
    /\ Len(ledger) = 2
    /\ ledger[1].amount > 0
    /\ ledger[1].occurred_at = today
    /\ ledger[2].amount < 0
    /\ ledger[2].occurred_at = today
    /\ ledger[2].bill_id = ledger[1].bill_id
    /\ call.op = "mark_paid"
    /\ ret.status = 200
    /\ ~ret.already_paid

-----------------------------------------------------------------------------
(* mark_paid requests of several clients at the same time                  *)

\* the bills whose current period contains today
RaceBillPool == << PaidBillPool[1], PaidBillPool[2] >>

RaceInit ==
    /\ today = Today
    /\ bills \in SubSeqs(RaceBillPool, MaxPaidBills)
    /\ ledger \in SubSeqs(LedgerPool, MaxLedger)
    /\ \A i \in 1..Len(ledger) :
          \E j \in 1..Len(bills) : bills[j].id = ledger[i].bill_id
    /\ budget_rows = << >>
    /\ ef_figures \in { e \in EfChoices : EfNeed(e) = 0 }
    /\ HandlerIdle
    /\ call = NoCall
    /\ ret = None
    /\ in_flight = << >>

\* each request runs in its own connection; the statements of different
\* requests interleave
RaceNext == \E c \in Clients : MarkPaidRead(c) \/ MarkPaidWrite(c)

RaceSpec == RaceInit /\ [][RaceNext]_vars

\* C27: when mark_paid requests for the same unpaid bill run concurrently,
\* each reading the ledger sums and then inserting, at most one payment
\* entry is inserted for the current period in every interleaving.
\* (Refuted: both read paid_sum = 0 before either inserts.)
C27_OnePaymentPerPeriodUnderConcurrency ==
    \A i \in 1..Len(bills) :
        LET l == MarkPaidLocals(bills[i], today, ledger)
        IN  Cardinality({ k \in PaymentsToday(ledger, bills[i].id) :
                            /\ ledger[k].occurred_at >= l.period_start
                            /\ ledger[k].occurred_at <= l.next_due }) <= 1

-----------------------------------------------------------------------------
(* Ledger rows against the periods of a listing                            *)

\* the rows of the listing whose period [period_start, due] holds ledger
\* row k of the same bill
CountedIn(k) ==
    { i \in 1..Len(ret) : /\ ret[i].bill_id = ledger[k].bill_id
                          /\ ret[i].period_start <= ledger[k].occurred_at
                          /\ ledger[k].occurred_at <= ret[i].due }

\* C26: each ledger entry of a bill is counted in the sums of at most one of
\* that bill's occurrences: the periods [period_start, due] of two
\* consecutive occurrences never both contain the same ledger timestamp.
\* (Refuted: the period of an occurrence starts on the previous due date and
\* both ends are inclusive, so an entry made on a due date is counted twice.)
C26_LedgerEntryCountedOnce ==
    ListingReturned =>
        \A k \in 1..Len(ledger) : Cardinality(CountedIn(k)) <= 1

-----------------------------------------------------------------------------
(* plan_breakdown over bills with start_date / end_date                    *)

\* ended weekly, monthly and yearly bills; weekly and monthly bills that
\* start after every window used; and rent, active and due in 3 days
BoundedBillPool ==
    << Bill("oldgym", 1006,  "weekly",  2, None, None, MkDate(2023, 12, 31)),
       Bill("newgym", 1006,  "weekly",  4, None, MkDate(2024, 3, 1), None),
       Bill("lease",  50000, "monthly", None, 31, MkDate(2023, 6, 15), MkDate(2023, 12, 31)),
       Bill("plan",   2000,  "monthly", None, 15, MkDate(2024, 3, 1), None),
       Bill("dues",   2000,  "yearly",  None, None, MkDate(2022, 1, 14), MkDate(2023, 6, 30)),
       BillPool[1] >>

BoundedInit ==
    /\ today = Today
    /\ bills \in SubSeqs(BoundedBillPool, MaxBills)
    /\ ledger = << >>
    /\ budget_rows \in SubSeqs(BudgetPool, 1)
    /\ ef_figures \in EfChoices
    /\ HandlerIdle
    /\ call = NoCall
    /\ ret = None
    /\ in_flight = << >>

BoundedSpec == BoundedInit /\ [][Next]_vars

\* the bill's schedule has ended before today, or starts after the window
InactiveInWindow(b, tdy, due_soon_days) ==
    \/ b.end_date # None /\ b.end_date < tdy
    \/ b.start_date # None /\ b.start_date > tdy + due_soon_days

\* C29: the bills stage of plan_breakdown never allocates to a bill of any
\* frequency whose end_date is before today or whose start_date is after
\* today + due_soon_days.  (Refuted: _next_due_date does not look at the
\* start_date / end_date of a weekly bill.)
C29_NoAllocationToInactiveBill ==
    pc \in { "budgets", "ef", "respond", "done" } =>
        \A i \in 1..Len(bills) :
            InactiveInWindow(bills[i], today, body.due_soon_days) =>
                /\ TakeIn(takes_bills, bills[i].id) = 0
                /\ \A k \in 1..Len(allocations_bills) :
                      allocations_bills[k].to # bills[i].id

-----------------------------------------------------------------------------
(* The running remainder of plan_breakdown                                 *)

\* C30: in every plan_breakdown run with non-negative inflow the running
\* remaining amount is never below zero after any stage, the EF stage with
\* its allocation rounded to 2 decimals included, and the reported
\* unallocated is never negative.  (Refuted: the EF stage subtracts the
\* rounded allocation, which can exceed remaining.)
C30_RemainingNeverNegative ==
    /\ (pc \in { "bills", "budgets", "ef", "respond", "done" } /\ body.amount >= 0)
          => remaining >= 0
    /\ (Done /\ body.amount >= 0) => response.unallocated >= 0

=============================================================================
